---- MODULE Spec2Model ----
(***************************************************************************)
(* Token / Currency value model of src/src/entities/token.ts: the Token    *)
(* constructor, Token.equals, Token.sortsBefore, currencyEquals and the    *)
(* static WETH table.                                                      *)
(*                                                                         *)
(* A JavaScript string is a sequence of one-character strings, one per     *)
(* UTF-16 code unit.  An optional string (symbol?, name?) is <<>> when it  *)
(* is undefined and <<s>> when it is the string s.  An object reference is *)
(* the name of the place that holds the object: === on two objects is      *)
(* equality of their references.  A call's outcome is a string: "true" or  *)
(* "false" for a returned boolean, and the message of the failed           *)
(* invariant(...) for a throw.                                             *)
(***************************************************************************)
EXTENDS Integers, Sequences, FiniteSets, TLC

VARIABLES objs, built, res

vars == <<objs, built, res>>

----------------------------------------------------------------------------
(* The literals of the WETH table (token.ts, lines 67 to 158), by key.      *)
(* The key the source writes with an O-umlaut is written GORLI.             *)

\* The table with the RINKEBY entry constructed on ChainId.ROPSTEN
WETH_chainId_copied ==
  [k \in {"MAINNET", "ROPSTEN", "RINKEBY", "GORLI", "KOVAN", "BSC", "CHAPEL", "MATIC",
          "MUMBAI", "EVMOSTEST", "EVMOS", "CELO", "CELOALFAJORES", "ZKSYNCTEST", "ZKSYNC",
          "SCROLLGOERLITEST", "SCROLLSEPOLIATEST", "SCROLL"} |->
     IF k = "RINKEBY" THEN "ROPSTEN" ELSE k]

\* First constructor argument of each entry of the WETH table, by key.
WETH_chainId ==
  [ MAINNET |-> "MAINNET",
    ROPSTEN |-> "ROPSTEN",
    RINKEBY |-> "RINKEBY",
    GORLI |-> "GORLI",
    KOVAN |-> "KOVAN",
    BSC |-> "BSC",
    CHAPEL |-> "CHAPEL",
    MATIC |-> "MATIC",
    MUMBAI |-> "MUMBAI",
    EVMOSTEST |-> "EVMOSTEST",
    EVMOS |-> "EVMOS",
    CELO |-> "CELO",
    CELOALFAJORES |-> "CELOALFAJORES",
    ZKSYNCTEST |-> "ZKSYNCTEST",
    ZKSYNC |-> "ZKSYNC",
    SCROLLGOERLITEST |-> "SCROLLGOERLITEST",
    SCROLLSEPOLIATEST |-> "SCROLLSEPOLIATEST",
    SCROLL |-> "SCROLL" ]

\* Address literal of each entry, one element per UTF-16 code unit.
WETH_address ==
  [ MAINNET |-> <<"0","x","C","0","2","a","a","A","3","9","b","2","2","3","F","E","8","D","0","A","0","e","5","C","4","F","2","7","e","A","D","9","0","8","3","C","7","5","6","C","c","2">>,
    ROPSTEN |-> <<"0","x","c","7","7","8","4","1","7","E","0","6","3","1","4","1","1","3","9","F","c","e","0","1","0","9","8","2","7","8","0","1","4","0","A","a","0","c","D","5","A","b">>,
    RINKEBY |-> <<"0","x","c","7","7","8","4","1","7","E","0","6","3","1","4","1","1","3","9","F","c","e","0","1","0","9","8","2","7","8","0","1","4","0","A","a","0","c","D","5","A","b">>,
    GORLI |-> <<"0","x","B","4","F","B","F","2","7","1","1","4","3","F","4","F","B","f","7","B","9","1","A","5","d","e","d","3","1","8","0","5","e","4","2","b","2","2","0","8","d","6">>,
    KOVAN |-> <<"0","x","d","0","A","1","E","3","5","9","8","1","1","3","2","2","d","9","7","9","9","1","E","0","3","f","8","6","3","a","0","C","3","0","C","2","c","F","0","2","9","C">>,
    BSC |-> <<"0","x","b","b","4","C","d","B","9","C","B","d","3","6","B","0","1","b","D","1","c","B","a","E","B","F","2","D","e","0","8","d","9","1","7","3","b","c","0","9","5","c">>,
    CHAPEL |-> <<"0","x","a","E","8","E","1","9","e","F","B","4","1","e","7","b","9","6","8","1","5","6","4","9","A","6","a","6","0","7","8","5","e","1","f","b","A","8","4","C","1","e">>,
    MATIC |-> <<"0","x","0","d","5","0","0","B","1","d","8","E","8","e","F","3","1","E","2","1","C","9","9","d","1","D","b","9","A","6","4","4","4","d","3","A","D","f","1","2","7","0">>,
    MUMBAI |-> <<"0","x","9","c","3","C","9","2","8","3","D","3","e","4","4","8","5","4","6","9","7","C","d","2","2","D","3","F","a","a","2","4","0","C","f","b","0","3","2","8","8","9">>,
    EVMOSTEST |-> <<"0","x","4","2","C","e","D","D","5","3","a","0","9","d","C","d","6","c","d","9","4","8","2","d","9","a","6","B","7","5","C","8","f","d","B","2","b","A","5","1","3","2">>,
    EVMOS |-> <<"0","x","d","4","9","4","9","6","6","4","c","d","8","2","6","6","0","a","a","e","9","9","b","e","d","c","0","3","4","a","0","d","e","a","8","a","0","b","d","5","1","7">>,
    CELO |-> <<"0","x","e","9","e","C","e","c","2","c","f","A","9","5","D","7","d","f","0","6","4","4","B","6","c","8","B","a","D","D","3","B","C","1","c","3","C","f","3","9","B","A">>,
    CELOALFAJORES |-> <<"0","x","C","8","F","2","E","5","5","5","9","5","1","a","1","e","D","b","6","1","0","b","5","b","E","B","a","5","3","0","F","4","1","3","0","E","5","d","9","4","F","9">>,
    ZKSYNCTEST |-> <<"0","x","a","1","E","A","0","B","2","3","5","4","F","5","A","3","4","4","1","1","0","a","f","2","b","6","A","D","6","8","e","7","5","5","4","5","0","0","9","a","0","3">>,
    ZKSYNC |-> <<"0","x","a","1","E","A","0","B","2","3","5","4","F","5","A","3","4","4","1","1","0","a","f","2","b","6","A","D","6","8","e","7","5","5","4","5","0","0","9","a","0","3">>,
    SCROLLGOERLITEST |-> <<"0","x","a","1","E","A","0","B","2","3","5","4","F","5","A","3","4","4","1","1","0","a","f","2","b","6","A","D","6","8","e","7","5","5","4","5","0","0","9","a","0","3">>,
    SCROLLSEPOLIATEST |-> <<"0","x","5","3","0","0","0","0","0","0","0","0","0","0","0","0","0","0","0","0","0","0","0","0","0","0","0","0","0","0","0","0","0","0","0","0","0","0","0","0","0","4">>,
    SCROLL |-> <<"0","x","5","3","0","0","0","0","0","0","0","0","0","0","0","0","0","0","0","0","0","0","0","0","0","0","0","0","0","0","0","0","0","0","0","0","0","0","0","0","0","4">> ]

\* Symbol literal of each entry.
WETH_symbol ==
  [ MAINNET |-> "WETH",
    ROPSTEN |-> "WETH",
    RINKEBY |-> "WETH",
    GORLI |-> "WETH",
    KOVAN |-> "WETH",
    BSC |-> "WBNB",
    CHAPEL |-> "WBNB",
    MATIC |-> "WMATIC",
    MUMBAI |-> "WMATIC",
    EVMOSTEST |-> "WTEVMOS",
    EVMOS |-> "WEVMOS",
    CELO |-> "WETH",
    CELOALFAJORES |-> "WETH",
    ZKSYNCTEST |-> "WETH",
    ZKSYNC |-> "WETH",
    SCROLLGOERLITEST |-> "WETH",
    SCROLLSEPOLIATEST |-> "WETH",
    SCROLL |-> "WETH" ]

\* Name literal of each entry.
WETH_name ==
  [ MAINNET |-> "Wrapped Ether",
    ROPSTEN |-> "Wrapped Ether",
    RINKEBY |-> "Wrapped Ether",
    GORLI |-> "Wrapped Ether",
    KOVAN |-> "Wrapped Ether",
    BSC |-> "Wrapped BNB",
    CHAPEL |-> "Wrapped BNB",
    MATIC |-> "Wrapped Matic",
    MUMBAI |-> "Wrapped Matic",
    EVMOSTEST |-> "Wrapped TEVMOS",
    EVMOS |-> "Wrapped EVMOS",
    CELO |-> "Wrapped Ether",
    CELOALFAJORES |-> "Wrapped Ether",
    ZKSYNCTEST |-> "Wrapped Ether",
    ZKSYNC |-> "Wrapped Ether",
    SCROLLGOERLITEST |-> "Wrapped Ether",
    SCROLLSEPOLIATEST |-> "Wrapped Ether",
    SCROLL |-> "Wrapped Ether" ]

\* The mixed-case checksum form of WETH_address.EVMOS, the one literal of the
\* table that is not written in that form.
EVMOS_checksummed ==
  <<"0","x","D","4","9","4","9","6","6","4","c","D","8","2","6","6","0","A","a","E","9","9","b","E","d","c","0","3","4","a","0","d","e","A","8","A","0","b","d","5","1","7">>

----------------------------------------------------------------------------
(* JavaScript strings *)

\* The UTF-16 code unit of each character the model uses
CharCode ==
  ("0" :> 48) @@ ("1" :> 49) @@ ("2" :> 50) @@ ("3" :> 51) @@ ("4" :> 52) @@ ("5" :> 53) @@ ("6" :> 54) @@ ("7" :> 55)
  @@ ("8" :> 56) @@ ("9" :> 57) @@ ("A" :> 65) @@ ("B" :> 66) @@ ("C" :> 67) @@ ("D" :> 68) @@ ("E" :> 69) @@ ("F" :> 70)
  @@ ("a" :> 97) @@ ("b" :> 98) @@ ("c" :> 99) @@ ("d" :> 100) @@ ("e" :> 101) @@ ("f" :> 102) @@ ("g" :> 103) @@ ("x" :> 120)

UpperToLower ==
  ("A" :> "a") @@ ("B" :> "b") @@ ("C" :> "c") @@ ("D" :> "d") @@ ("E" :> "e") @@ ("F" :> "f")

LowerOf ==
  [c \in DOMAIN CharCode |-> IF c \in DOMAIN UpperToLower THEN UpperToLower[c] ELSE c]

\* String.prototype.toLowerCase
toLowerCase(s) == [i \in 1..Len(s) |-> LowerOf[s[i]]]

\* s < t on two strings: by code unit at the first difference, a proper prefix first
StringLess(s, t) ==
  LET n == IF Len(s) < Len(t) THEN Len(s) ELSE Len(t)
      D == {i \in 1..n : s[i] # t[i]}
  IN  IF D = {}
        THEN Len(s) < Len(t)
        ELSE LET k == CHOOSE i \in D : \A j \in D : i <= j
             IN  CharCode[s[k]] < CharCode[t[k]]

Undefined == <<>>

\* The truthiness of an optional string: undefined and "" are falsy
Truthy(v) == v # Undefined /\ v[1] # ""

----------------------------------------------------------------------------
(* ../utils validateAndParseAddress, ./currency Currency, ../constants     *)
(* ChainId: imported by token.ts, modelled from the specification.         *)

HexChars ==
  {"0","1","2","3","4","5","6","7","8","9","a","b","c","d","e","f","A","B","C","D","E","F"}

AddressLength == 42

\* Syntactic validity: "0x" and 40 hexadecimal characters
WellFormedAddress(s) ==
  /\ Len(s) = AddressLength
  /\ s[1] = "0"
  /\ s[2] = "x"
  /\ \A i \in 3..Len(s) : s[i] \in HexChars

\* The canonical (mixed-case checksum) form of every address the model uses
CanonicalAddresses ==
  {WETH_address[k] : k \in (DOMAIN WETH_address) \ {"EVMOS"}} \cup {EVMOS_checksummed}

\* The canonical form of a well-formed address: same characters, canonical casing
NormalizedAddress(s) ==
  CHOOSE c \in CanonicalAddresses : toLowerCase(c) = toLowerCase(s)

Absent == [kind |-> "absent"]

validateAndParseAddress(s) ==
  IF WellFormedAddress(s)
    THEN [out |-> "ok", value |-> NormalizedAddress(s)]
    ELSE [out |-> "InvalidAddress", value |-> <<>>]

MaxDecimals == 255

\* Currency's constructor: decimals must fit the permitted range
Currency(decimals, symbol, name) ==
  IF decimals \in 0..MaxDecimals
    THEN [out |-> "ok",
          obj |-> [kind |-> "Currency", decimals |-> decimals, symbol |-> symbol, name |-> name]]
    ELSE [out |-> "InvalidDecimals", obj |-> Absent]

----------------------------------------------------------------------------
(* token.ts *)

\* The constructor keeping the address as given, once validated
Token_addressAsGiven(chainId, address, decimals, symbol, name) ==
  LET super == Currency(decimals, symbol, name)
      parsed == validateAndParseAddress(address)
  IN  IF super.out # "ok" THEN super
      ELSE IF parsed.out # "ok" THEN [out |-> parsed.out, obj |-> Absent]
      ELSE [out |-> "ok",
            obj |-> [kind |-> "Token", chainId |-> chainId, address |-> address,
                     decimals |-> decimals, symbol |-> symbol, name |-> name]]

\* The constructor without the call of validateAndParseAddress
Token_unvalidated(chainId, address, decimals, symbol, name) ==
  LET super == Currency(decimals, symbol, name)
  IN  IF super.out # "ok" THEN super
      ELSE [out |-> "ok",
            obj |-> [kind |-> "Token", chainId |-> chainId, address |-> address,
                     decimals |-> decimals, symbol |-> symbol, name |-> name]]

\* new Token(chainId, address, decimals, symbol?, name?)
Token(chainId, address, decimals, symbol, name) ==
  LET super == Currency(decimals, symbol, name)
      parsed == validateAndParseAddress(address)
  IN  IF super.out # "ok" THEN super
      ELSE IF parsed.out # "ok" THEN [out |-> parsed.out, obj |-> Absent]
      ELSE [out |-> "ok",
            obj |-> [kind |-> "Token", chainId |-> chainId, address |-> parsed.value,
                     decimals |-> decimals, symbol |-> symbol, name |-> name]]

\* equals comparing the symbols and names without the guard on their presence
equals_unguarded(heap, this, other) ==
  LET t == heap[this]
      o == heap[other]
      equivalent == t.chainId = o.chainId /\ t.address = o.address
  IN  IF this = other THEN "true"
      ELSE IF ~equivalent THEN "false"
      ELSE IF t.decimals # o.decimals THEN "DECIMALS"
      ELSE IF t.symbol # o.symbol THEN "SYMBOL"
      ELSE IF t.name # o.name THEN "NAME"
      ELSE "true"

\* equals returning false on a metadata mismatch instead of throwing
equals_mismatchIsFalse(heap, this, other) ==
  LET t == heap[this]
      o == heap[other]
      equivalent == t.chainId = o.chainId /\ t.address = o.address
  IN  IF this = other THEN "true"
      ELSE IF ~equivalent THEN "false"
      ELSE IF t.decimals # o.decimals THEN "false"
      ELSE IF Truthy(t.symbol) /\ Truthy(o.symbol) /\ t.symbol # o.symbol THEN "false"
      ELSE IF Truthy(t.name) /\ Truthy(o.name) /\ t.name # o.name THEN "false"
      ELSE "true"

\* equals guarding the symbol and name checks on this alone
equals_guardOnThis(heap, this, other) ==
  LET t == heap[this]
      o == heap[other]
      equivalent == t.chainId = o.chainId /\ t.address = o.address
  IN  IF this = other THEN "true"
      ELSE IF ~equivalent THEN "false"
      ELSE IF t.decimals # o.decimals THEN "DECIMALS"
      ELSE IF Truthy(t.symbol) /\ t.symbol # o.symbol THEN "SYMBOL"
      ELSE IF Truthy(t.name) /\ t.name # o.name THEN "NAME"
      ELSE "true"

\* this.equals(other), on the objects heap holds at the references this and other
equals(heap, this, other) ==
  LET t == heap[this]
      o == heap[other]
      equivalent == t.chainId = o.chainId /\ t.address = o.address
  IN  IF this = other THEN "true"
      ELSE IF ~equivalent THEN "false"
      ELSE IF t.decimals # o.decimals THEN "DECIMALS"
      ELSE IF Truthy(t.symbol) /\ Truthy(o.symbol) /\ t.symbol # o.symbol THEN "SYMBOL"
      ELSE IF Truthy(t.name) /\ Truthy(o.name) /\ t.name # o.name THEN "NAME"
      ELSE "true"

\* sortsBefore comparing the addresses as stored, without toLowerCase
sortsBefore_caseSensitive(heap, this, other) ==
  LET t == heap[this]
      o == heap[other]
  IN  IF t.chainId # o.chainId THEN "CHAIN_IDS"
      ELSE IF t.address = o.address THEN "ADDRESSES"
      ELSE IF StringLess(t.address, o.address) THEN "true"
      ELSE "false"

\* sortsBefore without the invariant on the addresses
sortsBefore_noAddressCheck(heap, this, other) ==
  LET t == heap[this]
      o == heap[other]
  IN  IF t.chainId # o.chainId THEN "CHAIN_IDS"
      ELSE IF StringLess(toLowerCase(t.address), toLowerCase(o.address)) THEN "true"
      ELSE "false"

\* this.sortsBefore(other)
sortsBefore(heap, this, other) ==
  LET t == heap[this]
      o == heap[other]
  IN  IF t.chainId # o.chainId THEN "CHAIN_IDS"
      ELSE IF t.address = o.address THEN "ADDRESSES"
      ELSE IF StringLess(toLowerCase(t.address), toLowerCase(o.address)) THEN "true"
      ELSE "false"

\* currencyEquals comparing the fields of the two currencies unless both are Tokens
currencyEquals_byFields(heap, currencyA, currencyB) ==
  IF heap[currencyA].kind = "Token" /\ heap[currencyB].kind = "Token"
    THEN equals(heap, currencyA, currencyB)
  ELSE IF /\ heap[currencyA].decimals = heap[currencyB].decimals
          /\ heap[currencyA].symbol = heap[currencyB].symbol
          /\ heap[currencyA].name = heap[currencyB].name
    THEN "true" ELSE "false"

\* currencyEquals comparing two non-Token currencies by value
currencyEquals_byValue(heap, currencyA, currencyB) ==
  IF heap[currencyA].kind = "Token" /\ heap[currencyB].kind = "Token"
    THEN equals(heap, currencyA, currencyB)
  ELSE IF heap[currencyA].kind = "Token" THEN "false"
  ELSE IF heap[currencyB].kind = "Token" THEN "false"
  ELSE IF heap[currencyA] = heap[currencyB] THEN "true" ELSE "false"

\* currencyEquals(currencyA, currencyB)
currencyEquals(heap, currencyA, currencyB) ==
  IF heap[currencyA].kind = "Token" /\ heap[currencyB].kind = "Token"
    THEN equals(heap, currencyA, currencyB)
  ELSE IF heap[currencyA].kind = "Token" THEN "false"
  ELSE IF heap[currencyB].kind = "Token" THEN "false"
  ELSE IF currencyA = currencyB THEN "true" ELSE "false"

WETHKeys == DOMAIN WETH_chainId

\* The constructor arguments of the entry stored under key k
WETHArgs(k) ==
  [chainId |-> WETH_chainId[k], address |-> WETH_address[k], decimals |-> 18,
   symbol |-> <<WETH_symbol[k]>>, name |-> <<WETH_name[k]>>]

\* export const WETH = { [ChainId.X]: new Token(...), ... }
WETH ==
  [k \in WETHKeys |->
     Token(WETHArgs(k).chainId, WETHArgs(k).address, WETHArgs(k).decimals,
           WETHArgs(k).symbol, WETHArgs(k).name)]

----------------------------------------------------------------------------
(* Inputs *)

PairSlots == {"a", "b"}

TripleSlots == {"a", "b", "c"}

SlotsBefore(s) == IF s = "a" THEN {} ELSE IF s = "b" THEN {"a"} ELSE {"a", "b"}

ChainInputs == {"MAINNET", "SCROLL"}

\* How many addresses of AddressPool the constructor is given
NumAddresses == 3

\* Addresses of the table as they are written there: EVMOS's in lower case,
\* KOVAN's with the same first character, GORLI's with an upper-case first
\* character, then ZKSYNC's and MAINNET's.
AddressPool ==
  <<WETH_address.EVMOS, WETH_address.KOVAN, WETH_address.GORLI, WETH_address.ZKSYNC,
    WETH_address.MAINNET>>

\* The first NumAddresses addresses of the pool, and EVMOS's in its checksum form
WellFormedInputs ==
  {AddressPool[i] : i \in 1..NumAddresses} \cup {EVMOS_checksummed}

\* "0x0000000000000000000000000000000000000g", and an address cut short, or
\* with a character that is no hexadecimal digit
MalformedInputs ==
  { <<"0","x">> \o [i \in 1..37 |-> "0"] \o <<"g">>,
    SubSeq(WETH_address.KOVAN, 1, Len(WETH_address.KOVAN) - 1),
    [WETH_address.GORLI EXCEPT ![Len(WETH_address.GORLI)] = "g"] }

AddressInputs == WellFormedInputs \cup MalformedInputs

DecimalsInputs == {6, 18, 256}

SymbolInputs == {Undefined, <<"">>, <<"WETH">>, <<"WBNB">>}

NameInputs == {Undefined, <<"">>, <<"Wrapped Ether">>, <<"Wrapped BNB">>}

TripleChainInputs == {"ZKSYNC", "SCROLLGOERLITEST"}

TripleAddressInputs == {WETH_address.ZKSYNC}

TripleDecimalsInputs == {6, 18}

TripleNameInputs == {Undefined, <<"">>, <<"Wrapped Ether">>}

----------------------------------------------------------------------------
(* State: objs maps each reference to the object it holds, built to the    *)
(* arguments the object was constructed from, res is the last call.        *)

NoArgs == [kind |-> "absent"]

CtorArgs(c, a, d, sy, n) ==
  [chainId |-> c, address |-> a, decimals |-> d, symbol |-> sy, name |-> n]

Init ==
  /\ objs = [s \in PairSlots |-> Absent]
  /\ built = [s \in PairSlots |-> NoArgs]
  /\ res = [op |-> "none", x |-> "", y |-> "", args |-> NoArgs, out |-> ""]

InitTriple ==
  /\ objs = [s \in TripleSlots |-> Absent]
  /\ built = [s \in TripleSlots |-> NoArgs]
  /\ res = [op |-> "none", x |-> "", y |-> "", args |-> NoArgs, out |-> ""]

\* Module load: every entry of the table is constructed
InitWETH ==
  /\ \A k \in WETHKeys : WETH[k].out = "ok"
  /\ objs = [k \in WETHKeys |-> WETH[k].obj]
  /\ built = [k \in WETHKeys |-> WETHArgs(k)]
  /\ res = [op |-> "none", x |-> "", y |-> "", args |-> NoArgs, out |-> ""]

\* A run constructs its objects and ends with one call, or with the first
\* error thrown: the calls change no object, so a run of several calls
\* reaches no objs, built and res that a run of one call does not.
Thrown == {"InvalidAddress", "InvalidDecimals", "DECIMALS", "SYMBOL", "NAME", "CHAIN_IDS", "ADDRESSES"}

Running == res.op \in {"none", "Token", "Currency"} /\ res.out \notin Thrown

IsNextFree(s) ==
  /\ Running
  /\ objs[s] = Absent
  /\ \A t \in SlotsBefore(s) : objs[t] # Absent

Construct(s, op, args, r) ==
  /\ res' = [op |-> op, x |-> s, y |-> s, args |-> args, out |-> r.out]
  /\ IF r.out = "ok"
       THEN /\ objs' = [objs EXCEPT ![s] = r.obj]
            /\ built' = [built EXCEPT ![s] = args]
       ELSE UNCHANGED <<objs, built>>

NewToken(slots, chains, addresses, decimalss, symbols, names) ==
  \E s \in slots :
    /\ IsNextFree(s)
    /\ \E c \in chains, a \in addresses, d \in decimalss, sy \in symbols, n \in names :
         Construct(s, "Token", CtorArgs(c, a, d, sy, n), Token(c, a, d, sy, n))

NewCurrency(slots, decimalss, symbols, names) ==
  \E s \in slots :
    /\ IsNextFree(s)
    /\ \E d \in decimalss, sy \in symbols, n \in names :
         Construct(s, "Currency", [decimals |-> d, symbol |-> sy, name |-> n], Currency(d, sy, n))

Tokens == {r \in DOMAIN objs : objs[r].kind = "Token"}

Objects == {r \in DOMAIN objs : objs[r] # Absent}

Call(op, x, y, out) ==
  /\ res' = [op |-> op, x |-> x, y |-> y, args |-> NoArgs, out |-> out]
  /\ UNCHANGED <<objs, built>>

CallEquals ==
  Running /\ \E x \in Tokens, y \in Tokens : Call("equals", x, y, equals(objs, x, y))

CallSortsBefore ==
  Running /\ \E x \in Tokens, y \in Tokens : Call("sortsBefore", x, y, sortsBefore(objs, x, y))

CallCurrencyEquals ==
  Running /\ \E x \in Objects, y \in Objects : Call("currencyEquals", x, y, currencyEquals(objs, x, y))

Next ==
  \/ NewToken(PairSlots, ChainInputs, AddressInputs, DecimalsInputs, SymbolInputs, NameInputs)
  \/ NewCurrency(PairSlots, DecimalsInputs, SymbolInputs, NameInputs)
  \/ CallEquals
  \/ CallSortsBefore
  \/ CallCurrencyEquals

Spec == Init /\ [][Next]_vars

NextTriple ==
  \/ NewToken(TripleSlots, TripleChainInputs, TripleAddressInputs, TripleDecimalsInputs,
              SymbolInputs, TripleNameInputs)
  \/ CallEquals

SpecTriple == InitTriple /\ [][NextTriple]_vars

NextWETH ==
  \/ CallEquals
  \/ CallSortsBefore
  \/ CallCurrencyEquals

SpecWETH == InitWETH /\ [][NextWETH]_vars

----------------------------------------------------------------------------
(* Properties.  Each is stated of res, the call made last, and of the      *)
(* objects objs[res.x] (this, or currencyA) and objs[res.y] (other, or     *)
(* currencyB) it was made on.                                              *)

Boolean == {"true", "false"}

\* The failures of the specification, by the message of the invariant
InconsistentTokenMetadata == {"DECIMALS", "SYMBOL", "NAME"}

CrossChainComparison == "CHAIN_IDS"

IdenticalAddress == "ADDRESSES"

\* Two addresses match case-insensitively
MatchIgnoringCase(s, t) ==
  /\ Len(s) = Len(t)
  /\ \A i \in 1..Len(s) : LowerOf[s[i]] = LowerOf[t[i]]

\* The lower-cased s is lexicographically less than the lower-cased t
LessIgnoringCase(s, t) ==
  \/ /\ Len(s) < Len(t)
     /\ \A j \in 1..Len(s) : LowerOf[s[j]] = LowerOf[t[j]]
  \/ \E k \in 1..Len(s) :
       /\ k <= Len(t)
       /\ \A j \in 1..(k - 1) : LowerOf[s[j]] = LowerOf[t[j]]
       /\ CharCode[LowerOf[s[k]]] < CharCode[LowerOf[t[k]]]

SameIdentity(a, b) ==
  a.chainId = b.chainId /\ MatchIgnoringCase(a.address, b.address)

SameMetadata(a, b) ==
  a.decimals = b.decimals /\ a.symbol = b.symbol /\ a.name = b.name

\* An optional string is provided when it is not undefined
Provided(v) == v # Undefined

\* An optional string is provided and not the empty string
NonEmpty(v) == v # Undefined /\ v # <<"">>

WrongLength(s) == Len(s) # AddressLength

NonHex(s) == \E i \in 3..Len(s) : s[i] \notin HexChars

Malformed(s) == WrongLength(s) \/ NonHex(s)

\* C1: for two distinct Tokens on which equals returns a value, the value is
\* true iff the chainIds are equal and the addresses match case-insensitively;
\* Tokens built from one chainId and one address in two casings are equal, and
\* Tokens built from one address on two chains are not.
C1_EqualsIsIdentity ==
  (res.op = "equals" /\ res.x # res.y /\ res.out \in Boolean) =>
    /\ res.out = "true" <=> SameIdentity(objs[res.x], objs[res.y])
    /\ SameIdentity(built[res.x], built[res.y]) => res.out = "true"
    /\ ( /\ built[res.x].address = built[res.y].address
         /\ built[res.x].chainId # built[res.y].chainId ) => res.out = "false"

C1_Witness ==
  /\ res.op = "equals"
  /\ res.x # res.y
  /\ built[res.x].chainId = built[res.y].chainId
  /\ built[res.x].address # built[res.y].address
  /\ MatchIgnoringCase(built[res.x].address, built[res.y].address)
  /\ res.out = "true"

\* C2 as stated: on two distinct Tokens of one identity, equals fails with
\* InconsistentTokenMetadata exactly when the decimals differ, or both provide
\* a symbol and the symbols differ, or both provide a name and the names
\* differ, and returns true otherwise.
C2_FailsWhenProvidedAndDifferent ==
  (res.op = "equals" /\ res.x # res.y /\ SameIdentity(objs[res.x], objs[res.y])) =>
    LET a == objs[res.x]
        b == objs[res.y]
        mismatch ==
          \/ a.decimals # b.decimals
          \/ Provided(a.symbol) /\ Provided(b.symbol) /\ a.symbol # b.symbol
          \/ Provided(a.name) /\ Provided(b.name) /\ a.name # b.name
    IN  IF mismatch THEN res.out \in InconsistentTokenMetadata ELSE res.out = "true"

\* C2, amended: on two distinct Tokens of one identity, equals fails with
\* InconsistentTokenMetadata exactly when the decimals differ, or both have a
\* non-empty symbol and the symbols differ, or both have a non-empty name and
\* the names differ, and returns true otherwise: a symbol or name that is
\* missing or the empty string on either side never causes a failure.
C2_FailsWhenNonEmptyAndDifferent ==
  (res.op = "equals" /\ res.x # res.y /\ SameIdentity(objs[res.x], objs[res.y])) =>
    LET a == objs[res.x]
        b == objs[res.y]
        mismatch ==
          \/ a.decimals # b.decimals
          \/ NonEmpty(a.symbol) /\ NonEmpty(b.symbol) /\ a.symbol # b.symbol
          \/ NonEmpty(a.name) /\ NonEmpty(b.name) /\ a.name # b.name
    IN  IF mismatch THEN res.out \in InconsistentTokenMetadata ELSE res.out = "true"

C2_Witness ==
  /\ res.op = "equals"
  /\ res.x # res.y
  /\ SameIdentity(objs[res.x], objs[res.y])
  /\ objs[res.x].symbol = <<"">>
  /\ objs[res.y].symbol = <<"WETH">>
  /\ objs[res.x].name = <<"Wrapped Ether">>
  /\ objs[res.y].name = Undefined
  /\ res.out = "true"

\* C3: for two Tokens on one chain with different addresses, sortsBefore
\* returns a boolean in both directions, true in exactly one of them, and true
\* iff this token's lower-cased address is lexicographically the lesser.
C3_SortsBeforeIsTotal ==
  ( /\ res.op = "sortsBefore"
    /\ objs[res.x].chainId = objs[res.y].chainId
    /\ objs[res.x].address # objs[res.y].address ) =>
    /\ res.out \in Boolean
    /\ sortsBefore(objs, res.y, res.x) \in Boolean
    /\ sortsBefore(objs, res.y, res.x) # res.out
    /\ res.out = "true" <=> LessIgnoringCase(objs[res.x].address, objs[res.y].address)

\* this sorts before other although its address as stored has the greater
\* code unit at the first difference
C3_Witness ==
  /\ res.op = "sortsBefore"
  /\ res.out = "true"
  /\ StringLess(objs[res.y].address, objs[res.x].address)

\* C4: sortsBefore fails with CrossChainComparison when the chainIds differ,
\* and with IdenticalAddress when the chainIds are equal and the addresses are
\* equal: on a Token and itself, and in both directions on two Tokens built
\* from identical inputs, which equals reports equal.
C4_SortsBeforeMisuse ==
  res.op = "sortsBefore" =>
    /\ objs[res.x].chainId # objs[res.y].chainId => res.out = CrossChainComparison
    /\ ( /\ objs[res.x].chainId = objs[res.y].chainId
         /\ MatchIgnoringCase(objs[res.x].address, objs[res.y].address) )
         => res.out = IdenticalAddress
    /\ res.x = res.y => res.out = IdenticalAddress
    /\ built[res.x] = built[res.y] =>
         /\ res.out = IdenticalAddress
         /\ sortsBefore(objs, res.y, res.x) = IdenticalAddress
         /\ equals(objs, res.x, res.y) = "true"

C4_Witness ==
  /\ res.op = "sortsBefore"
  /\ res.x # res.y
  /\ built[res.x] = built[res.y]
  /\ res.out = IdenticalAddress

\* C5: currencyEquals on a native Currency and a Token, in either order,
\* returns false, whatever their decimals, symbols and names.
C5_NativeNeverEqualsToken ==
  (res.op = "currencyEquals" /\ objs[res.x].kind # objs[res.y].kind) =>
    res.out = "false"

C5_Witness ==
  /\ res.op = "currencyEquals"
  /\ objs[res.x].kind = "Currency"
  /\ objs[res.y].kind = "Token"
  /\ SameMetadata(objs[res.x], objs[res.y])
  /\ res.out = "false"

\* C6 as stated: currencyEquals on two distinct native Currency instances with
\* equal decimals, symbol and name returns true.
C6_NativeComparedByValue ==
  ( /\ res.op = "currencyEquals"
    /\ objs[res.x].kind = "Currency"
    /\ objs[res.y].kind = "Currency"
    /\ SameMetadata(objs[res.x], objs[res.y]) ) => res.out = "true"

\* C6, amended: when neither argument is a Token, currencyEquals returns true
\* iff the two arguments are one and the same instance; on two distinct
\* instances it returns false, also when their fields are equal.
C6_NativeComparedByReference ==
  ( /\ res.op = "currencyEquals"
    /\ objs[res.x].kind = "Currency"
    /\ objs[res.y].kind = "Currency" ) =>
    /\ res.out \in Boolean
    /\ res.out = "true" <=> res.x = res.y

C6_Witness ==
  /\ res.op = "currencyEquals"
  /\ objs[res.x].kind = "Currency"
  /\ res.x # res.y
  /\ objs[res.x] = objs[res.y]
  /\ res.out = "false"

\* The canonical addresses that pass the validator unchanged
ValidatedAddresses ==
  {c \in CanonicalAddresses : validateAndParseAddress(c) = [out |-> "ok", value |-> c]}

\* C7: the constructor fails with InvalidAddress on a malformed address (with
\* in-range decimals) and yields no Token; a Token it returns holds the
\* normalized form of the address and the chainId, decimals, symbol and name
\* given; every Token's address passes the validator.
C7_ConstructValidates ==
  /\ res.op = "Token" =>
       /\ ( /\ Malformed(res.args.address)
            /\ res.args.decimals \in 0..MaxDecimals ) =>
              /\ res.out = "InvalidAddress"
              /\ objs[res.x] = Absent
       /\ res.out = "ok" =>
            /\ ~Malformed(res.args.address)
            /\ objs[res.x] =
                 [kind |-> "Token", chainId |-> res.args.chainId,
                  address |-> validateAndParseAddress(res.args.address).value,
                  decimals |-> res.args.decimals, symbol |-> res.args.symbol,
                  name |-> res.args.name]
  /\ \A r \in Tokens : objs[r].address \in ValidatedAddresses

\* A malformed address is refused after a Token was built from an address
\* whose normalized form differs from it
C7_Witness ==
  /\ res.op = "Token"
  /\ res.x = "b"
  /\ NonHex(res.args.address)
  /\ ~WrongLength(res.args.address)
  /\ res.out = "InvalidAddress"
  /\ objs["b"] = Absent
  /\ objs["a"].kind = "Token"
  /\ objs["a"].address # built["a"].address

C9_EqualsSymmetric ==
  res.op = "equals" =>
    /\ res.out \in Boolean \cup InconsistentTokenMetadata
    /\ equals(objs, res.y, res.x) = res.out

C9_Witness ==
  /\ res.op = "equals"
  /\ res.x # res.y
  /\ objs[res.x].symbol = Undefined
  /\ objs[res.y].symbol = <<"WETH">>
  /\ res.out = "NAME"

\* C10: the Token stored under each key of the WETH table has that key as its
\* chainId, and equals on two entries under distinct keys returns false, also
\* when the two share their address literal.
C10_WETHKeyedByChainId ==
  /\ \A k \in DOMAIN objs : objs[k].kind = "Token" /\ objs[k].chainId = k
  /\ (res.op = "equals" /\ res.x # res.y) => res.out = "false"

C10_Witness ==
  /\ res.op = "equals"
  /\ res.x = "ROPSTEN"
  /\ res.y = "RINKEBY"
  /\ built[res.x].address = built[res.y].address
  /\ res.out = "false"

====
